---- MODULE Spec2Model ----
(***************************************************************************)
(* The pastebin app's initial migration (0001_initial.py) and the Paste    *)
(* table it creates.  The migration is declarative: it lists one           *)
(* CreateModel operation with five field declarations.  The model gives    *)
(* each declaration the behaviour Django's ORM gives it when an instance   *)
(* is built and saved:                                                     *)
(*   AutoField(primary_key=True)       the database issues the id from an  *)
(*                                     auto-increment sequence at insert   *)
(*   TextField()                       NOT NULL column; an attribute that  *)
(*                                     is not passed gets the empty string *)
(*   CharField(max_length=40, null=True)  nullable column; max_length is   *)
(*                                     declared, saving does not check it  *)
(*   DateTimeField(auto_now_add=True)  pre_save reads the clock on insert  *)
(*   DateTimeField(auto_now=True)      pre_save reads the clock on every   *)
(*                                     save                                *)
(* Every column value is an option: <<>> is NULL/None, <<v>> is value v.   *)
(* The clock is non-decreasing; each pre_save that reads it makes its own  *)
(* reading, so the clock may advance between two readings of one save.     *)
(* A statement that puts NULL in a NOT NULL column has no effect.          *)
(***************************************************************************)
EXTENDS Integers, Sequences, FiniteSets, TLC

VARIABLES applied, tables, Paste, sequence, now, assigned, last

vars == <<applied, tables, Paste, sequence, now, assigned, last>>

\* ------------------------------------------------------------------ bounds
MaxInserts == 2
MaxClock == 1

\* ------------------------------------------------------------ option values
None == <<>>
Some(v) == <<v>>
IsNull(x) == Len(x) = 0
Val(x) == x[1]

\* a string of n characters
Str(n) == [i \in 1..n |-> "x"]

\* --------------------------------------------------- the migration's content
initial == TRUE

dependencies == {}

NameMaxLength == 40

Field(n, t, pk, nullable, blank, maxlen, addnow, anow) ==
  [name |-> n, type |-> t, primary_key |-> pk, null |-> nullable,
   blank |-> blank, max_length |-> maxlen,
   auto_now_add |-> addnow, auto_now |-> anow]

fields_swapped_auto ==
  << Field("id", "AutoField", TRUE, FALSE, TRUE, None, FALSE, FALSE),
     Field("text", "TextField", FALSE, FALSE, FALSE, None, FALSE, FALSE),
     Field("name", "CharField", FALSE, TRUE, TRUE, Some(NameMaxLength), FALSE, FALSE),
     Field("created_on", "DateTimeField", FALSE, FALSE, TRUE, None, FALSE, TRUE),
     Field("updated_on", "DateTimeField", FALSE, FALSE, TRUE, None, TRUE, FALSE) >>

fields_text_nullable ==
  << Field("id", "AutoField", TRUE, FALSE, TRUE, None, FALSE, FALSE),
     Field("text", "TextField", FALSE, TRUE, FALSE, None, FALSE, FALSE),
     Field("name", "CharField", FALSE, TRUE, TRUE, Some(NameMaxLength), FALSE, FALSE),
     Field("created_on", "DateTimeField", FALSE, FALSE, TRUE, None, TRUE, FALSE),
     Field("updated_on", "DateTimeField", FALSE, FALSE, TRUE, None, FALSE, TRUE) >>

fields_created_auto_now ==
  << Field("id", "AutoField", TRUE, FALSE, TRUE, None, FALSE, FALSE),
     Field("text", "TextField", FALSE, FALSE, FALSE, None, FALSE, FALSE),
     Field("name", "CharField", FALSE, TRUE, TRUE, Some(NameMaxLength), FALSE, FALSE),
     Field("created_on", "DateTimeField", FALSE, FALSE, TRUE, None, FALSE, TRUE),
     Field("updated_on", "DateTimeField", FALSE, FALSE, TRUE, None, FALSE, TRUE) >>

fields_updated_on_first ==
  << Field("id", "AutoField", TRUE, FALSE, TRUE, None, FALSE, FALSE),
     Field("text", "TextField", FALSE, FALSE, FALSE, None, FALSE, FALSE),
     Field("name", "CharField", FALSE, TRUE, TRUE, Some(NameMaxLength), FALSE, FALSE),
     Field("updated_on", "DateTimeField", FALSE, FALSE, TRUE, None, FALSE, TRUE),
     Field("created_on", "DateTimeField", FALSE, FALSE, TRUE, None, TRUE, FALSE) >>

fields ==
  << Field("id", "AutoField", TRUE, FALSE, TRUE, None, FALSE, FALSE),
     Field("text", "TextField", FALSE, FALSE, FALSE, None, FALSE, FALSE),
     Field("name", "CharField", FALSE, TRUE, TRUE, Some(NameMaxLength), FALSE, FALSE),
     Field("created_on", "DateTimeField", FALSE, FALSE, TRUE, None, TRUE, FALSE),
     Field("updated_on", "DateTimeField", FALSE, FALSE, TRUE, None, FALSE, TRUE) >>

operations_two_models ==
  << [op |-> "CreateModel", name |-> "Paste", fields |-> fields],
     [op |-> "CreateModel", name |-> "Comment", fields |-> fields] >>

operations ==
  << [op |-> "CreateModel", name |-> "Paste", fields |-> fields] >>

\* ------------------------------------------------------ the migration runner
NoTables == [n \in {} |-> <<>>]

\* the table of a model: its columns in declaration order, and each column's
\* declaration by name
Table(fs) ==
  [order |-> [i \in DOMAIN fs |-> fs[i].name],
   column |-> [n \in {fs[i].name : i \in DOMAIN fs} |->
                 CHOOSE f \in {fs[i] : i \in DOMAIN fs} : f.name = n]]

\* CreateModel adds the model's table, with the declared columns, to the schema
CreateModel(schema, op) ==
  [n \in DOMAIN schema \cup {op.name} |->
     IF n = op.name THEN Table(op.fields) ELSE schema[n]]

RECURSIVE ApplyOperations(_, _, _)
ApplyOperations(schema, ops, i) ==
  IF i > Len(ops) THEN schema
  ELSE ApplyOperations(CreateModel(schema, ops[i]), ops, i + 1)

\* --------------------------------------------------- the declarations' meaning
Index(n) == CHOOSE i \in DOMAIN tables["Paste"].order : tables["Paste"].order[i] = n

Column(n) == tables["Paste"].column[n]

\* Field.get_default for a field without default=: None when the column is
\* nullable, the empty string for a string-based NOT NULL column
get_default(f) ==
  IF f.null THEN None
  ELSE IF f.type \in {"TextField", "CharField"} THEN Some("") ELSE None

\* DateTimeField.pre_save: auto_now always takes the clock reading,
\* auto_now_add takes it on insert only; otherwise the attribute is kept
pre_save_ignores_add(f, add, value, reading) ==
  IF f.auto_now \/ f.auto_now_add THEN Some(reading) ELSE value

pre_save_on_add_only(f, add, value, reading) ==
  IF (f.auto_now \/ f.auto_now_add) /\ add THEN Some(reading) ELSE value

pre_save(f, add, value, reading) ==
  IF f.auto_now \/ (f.auto_now_add /\ add) THEN Some(reading) ELSE value

\* the columns' pre_save run in declaration order, each making its own clock
\* reading: the earlier declared timestamp reads t, the later one t + d
Reading(n, other, t, d) == IF Index(n) < Index(other) THEN t ELSE t + d

\* the NOT NULL constraint of a declared column
NotNullOk(f, v) == f.null \/ ~IsNull(v)

\* the outcome of writing row: a NULL in a NOT NULL column is an
\* IntegrityError; nothing on the save path compares a value with max_length
Outcome(row) ==
  IF /\ NotNullOk(Column("text"), row.text)
     /\ NotNullOk(Column("name"), row.name)
     /\ NotNullOk(Column("created_on"), row.created_on)
     /\ NotNullOk(Column("updated_on"), row.updated_on)
  THEN "ok"
  ELSE "IntegrityError"

\* the AutoField value the database issues for the next inserted row: one more
\* than the last value issued, whether or not that row still exists
NextId_max_plus_one ==
  IF Paste = {} THEN 1
  ELSE 1 + CHOOSE m \in {Val(r.id) : r \in Paste} : \A r \in Paste : Val(r.id) <= m

NextId_from_zero == sequence

NextId == sequence + 1

\* ------------------------------------------------------------------- inputs
Omitted == [given |-> FALSE]
Given(v) == [given |-> TRUE, value |-> v]

\* what a caller passes for text and for name: nothing, None or a string; the
\* names are the boundary lengths around max_length
InsertTextArgs == {Omitted, Given(None), Given(Some("hello world"))}

UpdateTextArgs == {Omitted, Given(None), Given(Some("hello world"))}

InsertNameArgs == {Omitted, Given(Some(Str(NameMaxLength))),
                   Given(Some(Str(NameMaxLength + 1)))}

UpdateNameArgs == {Omitted, Given(None),
                   Given(Some(Str(NameMaxLength))), Given(Some(Str(NameMaxLength + 1)))}

Ticks == {0, 1}

\* ------------------------------------------------------------------ actions
Init ==
  /\ applied = FALSE
  /\ tables = NoTables
  /\ Paste = {}
  /\ sequence = 0
  /\ now = 0
  /\ assigned = <<>>
  /\ last = "none"

\* the migration runner applies the migration once, its dependencies permitting
Migrate ==
  /\ ~applied
  /\ dependencies = {}
  /\ applied' = TRUE
  /\ tables' = ApplyOperations(tables, operations, 1)
  /\ last' = "migrate"
  /\ UNCHANGED <<Paste, sequence, now, assigned>>

\* the wall clock advances
Tick ==
  /\ now < MaxClock
  /\ now' = now + 1
  /\ UNCHANGED <<applied, tables, Paste, sequence, assigned, last>>

\* the row of a new instance built from the arguments: attributes not passed
\* take the field default, the database issues the id, each timestamp's
\* pre_save makes its own clock reading
NewRow(text, name, d) ==
  [id |-> Some(NextId),
   text |-> IF text.given THEN text.value ELSE get_default(Column("text")),
   name |-> IF name.given THEN name.value ELSE get_default(Column("name")),
   created_on |-> pre_save(Column("created_on"), TRUE, None,
                           Reading("created_on", "updated_on", now, d)),
   updated_on |-> pre_save(Column("updated_on"), TRUE, None,
                           Reading("updated_on", "created_on", now, d))]

\* what saving the new instance does: the row is added to the table unless
\* the database raises an error, and then nothing is written
InsertResult(text, name, d) ==
  LET row == NewRow(text, name, d)
      outcome == Outcome(row)
  IN  [outcome |-> outcome,
       row |-> row,
       rows |-> IF outcome = "ok" THEN Paste \cup {row} ELSE Paste]

\* Paste(**kwargs).save() on a new instance
Insert(text, name, d) ==
  /\ "Paste" \in DOMAIN tables
  /\ sequence < MaxInserts
  /\ now + d <= MaxClock
  /\ now' = now + d
  /\ LET res == InsertResult(text, name, d)
     IN  /\ Paste' = res.rows
         /\ IF res.outcome = "ok"
            THEN /\ sequence' = Val(res.row.id)
                 /\ assigned' = Append(assigned, Val(res.row.id))
                 /\ last' = "insert"
            ELSE /\ last' = "insert IntegrityError"
                 /\ UNCHANGED <<sequence, assigned>>
  /\ UNCHANGED <<applied, tables>>

\* the row of an instance loaded from row old with text and/or name
\* re-assigned: the primary key is kept, the other columns go through pre_save
SavedRow(old, text, name) ==
  [id |-> old.id,
   text |-> IF text.given THEN text.value ELSE old.text,
   name |-> IF name.given THEN name.value ELSE old.name,
   created_on |-> pre_save(Column("created_on"), FALSE, old.created_on, now),
   updated_on |-> pre_save(Column("updated_on"), FALSE, old.updated_on, now)]

\* what saving the changed instance does: its row is rewritten unless the
\* database raises an error, and then nothing is written
UpdateResult(old, text, name) ==
  LET row == SavedRow(old, text, name)
      outcome == Outcome(row)
  IN  [outcome |-> outcome,
       row |-> row,
       rows |-> IF outcome = "ok" THEN (Paste \ {old}) \cup {row} ELSE Paste]

\* an instance loaded from row old, changed and saved
Update(old, text, name) ==
  /\ old \in Paste
  /\ LET res == UpdateResult(old, text, name)
     IN  /\ Paste' = res.rows
         /\ last' = IF res.outcome = "ok" THEN "update"
                    ELSE "update IntegrityError"
  /\ UNCHANGED <<applied, tables, sequence, now, assigned>>

\* the external deletion of a row
Delete(old) ==
  /\ old \in Paste
  /\ Paste' = Paste \ {old}
  /\ last' = "delete"
  /\ UNCHANGED <<applied, tables, sequence, now, assigned>>

Next ==
  \/ Migrate
  \/ Tick
  \/ \E text \in InsertTextArgs, name \in InsertNameArgs, d \in Ticks : Insert(text, name, d)
  \/ \E old \in Paste, text \in UpdateTextArgs, name \in UpdateNameArgs :
       Update(old, text, name)
  \/ \E old \in Paste : Delete(old)

Spec == Init /\ [][Next]_vars

\* ------------------------------------------------------------ claim helpers
RowWithId(rows, id) == CHOOSE r \in rows : r.id = id

\* the row the latest insert created
Newest == RowWithId(Paste', Some(sequence'))

NullPassed(a) == a.given /\ IsNull(a.value)

NothingPassed(a) == ~a.given \/ IsNull(a.value)

Length(a) == IF a.given /\ ~IsNull(a.value) THEN Len(Val(a.value)) ELSE 0

Passed(a, otherwise) == IF a.given THEN a.value ELSE otherwise


\* a step that saved an existing row, successfully: only Update sets last to
\* "update", and only Tick and Insert move the clock
UpdateStep == last' = "update" /\ now' = now

\* a step of Update, accepted or rejected
UpdateAttempt ==
  /\ last' \in {"update", "update IntegrityError"}
  /\ now' = now

\* C1: in every reachable state every Paste row has created_on <= updated_on.
C1_CreatedNotAfterUpdated ==
  \A r \in Paste : Val(r.created_on) <= Val(r.updated_on)

C1_Witness ==
  /\ last = "update"
  /\ \E r \in Paste : Val(r.created_on) < Val(r.updated_on)

\* C2 as claimed: every modification of an existing Paste makes updated_on
\* strictly greater than it was and keeps created_on.
C2_UpdatedOnStrictlyAdvances ==
  [][\A old \in Paste, text \in UpdateTextArgs, name \in UpdateNameArgs :
       (Update(old, text, name) /\ last' = "update") =>
          LET new == RowWithId(Paste', old.id)
          IN  /\ Val(new.updated_on) > Val(old.updated_on)
              /\ new.created_on = old.created_on]_vars

\* C2 amended: a modification of an existing Paste re-assigns updated_on to
\* the clock reading of that save, so it never decreases and is strictly
\* greater than before whenever the clock has advanced since the row was last
\* saved; created_on keeps the value it was given at insert.
C2_UpdatedOnRefreshed ==
  [][UpdateStep =>
       \E old \in Paste :
          LET new == RowWithId(Paste', old.id)
          IN  /\ Paste' = (Paste \ {old}) \cup {new}
              /\ new.updated_on = Some(now)
              /\ Val(new.updated_on) >= Val(old.updated_on)
              /\ (now > Val(old.updated_on) =>
                    Val(new.updated_on) > Val(old.updated_on))
              /\ new.created_on = old.created_on]_vars

C2_Witness ==
  /\ last = "update"
  /\ now = MaxClock
  /\ \E r \in Paste : Val(r.created_on) = 0 /\ Val(r.updated_on) = MaxClock

\* C3 as claimed: an insert without a name succeeds with name null, an insert
\* without text (not passed, or null) fails and leaves the table unchanged,
\* and text is non-null in every row.
C3_InsertWithoutTextFails ==
  [][/\ \A r \in Paste' : ~IsNull(r.text)
     /\ \A text \in InsertTextArgs, name \in InsertNameArgs, d \in Ticks :
          Insert(text, name, d) =>
            /\ NothingPassed(text) => (Paste' = Paste /\ last' # "insert")
            /\ (~name.given /\ ~NothingPassed(text)) =>
                  (last' = "insert" /\ IsNull(Newest.name))]_vars

\* C3 amended: an insert without a name succeeds with name null; an insert
\* whose text is null is rejected and leaves the table unchanged; an insert
\* that does not pass text at all is not rejected for it and stores the empty
\* string; text is non-null in every row.
C3_NullTextRejected ==
  /\ \A r \in Paste : ~IsNull(r.text)
  /\ "Paste" \in DOMAIN tables =>
       \A text \in InsertTextArgs, name \in InsertNameArgs, d \in Ticks :
          LET res == InsertResult(text, name, d)
          IN  /\ NullPassed(text) =>
                    (res.outcome # "ok" /\ res.rows = Paste)
              /\ ~text.given =>
                    /\ res.outcome = "ok"
                    /\ res.row.text = Some("")
                    /\ res.row \in res.rows
              /\ (~name.given /\ ~NullPassed(text)) =>
                    /\ res.outcome = "ok"
                    /\ IsNull(res.row.name)
                    /\ res.row \in res.rows

C3_Witness ==
  /\ last = "insert IntegrityError"
  /\ \E r \in Paste : r.text = Some("") /\ IsNull(r.name)

\* C4 as claimed: an insert or update whose name has length 41 or more is
\* rejected and leaves the rows unchanged, a name of length 40 or less (or
\* null, or not passed) is accepted, and every stored non-null name has
\* length <= 40.
C4_NameLength ==
  [][/\ \A r \in Paste' : IsNull(r.name) \/ Len(Val(r.name)) <= 40
     /\ \A text \in InsertTextArgs, name \in InsertNameArgs, d \in Ticks :
          Insert(text, name, d) =>
            /\ Length(name) >= 41 => (Paste' = Paste /\ last' # "insert")
            /\ (Length(name) <= 40 /\ ~NullPassed(text)) =>
                  (last' = "insert" /\ Newest.name = Passed(name, None))
     /\ \A old \in Paste, text \in UpdateTextArgs, name \in UpdateNameArgs :
          Update(old, text, name) =>
            /\ Length(name) >= 41 => (Paste' = Paste /\ last' # "update")
            /\ (Length(name) <= 40 /\ ~NullPassed(text)) =>
                  /\ last' = "update"
                  /\ RowWithId(Paste', old.id).name = Passed(name, old.name)]_vars

\* C5: ids are unique among the rows and never reused: no insert is given an
\* id that an earlier insert was given, deleted rows included.
C5_IdsUniqueNeverReused ==
  /\ \A r1, r2 \in Paste : r1.id = r2.id => r1 = r2
  /\ \A i, j \in DOMAIN assigned : i # j => assigned[i] # assigned[j]
  /\ \A r \in Paste : \E i \in DOMAIN assigned : assigned[i] = Val(r.id)

C5_Witness ==
  /\ last = "insert"
  /\ Len(assigned) >= 2
  /\ Cardinality(Paste) = 1

\* C6: the ids given to successive inserts are strictly increasing, and the
\* first insert into the freshly migrated table gets id 1.
C6_IdsIncreaseFromOne ==
  /\ \A i, j \in DOMAIN assigned : i < j => assigned[i] < assigned[j]
  /\ assigned # <<>> => assigned[1] = 1

C6_Witness ==
  /\ last = "insert"
  /\ Len(assigned) >= 2
  /\ Cardinality(Paste) = 2

\* C7 as claimed: right after a Paste is created its created_on and
\* updated_on are the same instant.
C7_TimestampsEqualAtInsert ==
  [][\A text \in InsertTextArgs, name \in InsertNameArgs, d \in Ticks :
       (Insert(text, name, d) /\ last' = "insert") =>
          Newest.created_on = Newest.updated_on]_vars

\* C7 amended: right after a Paste is created its created_on and updated_on
\* are the two clock readings the insert made, created_on first: created_on
\* <= updated_on, and they are the same instant exactly when the clock did
\* not advance between the two readings.
C7_TimestampsAtInsert ==
  [][(last' = "insert" /\ sequence' # sequence) =>
       /\ Newest \in Paste' \ Paste
       /\ Newest.created_on = Some(now)
       /\ Newest.updated_on = Some(now')
       /\ Val(Newest.created_on) <= Val(Newest.updated_on)
       /\ (Newest.created_on = Newest.updated_on <=> now' = now)]_vars

C7_Witness ==
  /\ last = "insert"
  /\ \E r \in Paste : /\ r.id = Some(sequence)
                      /\ Val(r.created_on) < Val(r.updated_on)

\* C8: an update leaves the row's id and created_on as they were, changes no
\* other row, and adds or removes no row.
C8_UpdateFrame ==
  [][UpdateAttempt =>
       /\ sequence' = sequence
       /\ assigned' = assigned
       /\ \E old \in Paste :
            LET new == RowWithId(Paste', old.id)
            IN  /\ Paste' = (Paste \ {old}) \cup {new}
                /\ new.id = old.id
                /\ new.created_on = old.created_on
                /\ \A r \in Paste : r.id # old.id => r \in Paste'
                /\ {r.id : r \in Paste'} = {r.id : r \in Paste}
                /\ Cardinality(Paste') = Cardinality(Paste)]_vars

C8_Witness ==
  /\ last = "update"
  /\ Cardinality(Paste) = 2
  /\ \E r \in Paste : Val(r.created_on) < Val(r.updated_on)

\* C9: the migration is initial, has no dependencies and one operation, which
\* creates Paste with the columns id, text, name, created_on, updated_on, id
\* the only primary key and name the only nullable column; once applied the
\* schema holds this table and nothing else.
C9_MigrationCreatesPaste ==
  /\ initial
  /\ dependencies = {}
  /\ Len(operations) = 1
  /\ operations[1].op = "CreateModel"
  /\ operations[1].name = "Paste"
  /\ ~applied => DOMAIN tables = {}
  /\ applied =>
       /\ DOMAIN tables = {"Paste"}
       /\ tables["Paste"].order =
            <<"id", "text", "name", "created_on", "updated_on">>
       /\ DOMAIN tables["Paste"].column =
            {"id", "text", "name", "created_on", "updated_on"}
       /\ \A n \in DOMAIN tables["Paste"].column :
            /\ Column(n).name = n
            /\ Column(n).primary_key <=> n = "id"
            /\ Column(n).null <=> n = "name"

C9_Witness ==
  /\ applied
  /\ last = "migrate"

\* C10: every existing row has id, created_on and updated_on assigned from
\* its insert on, and only an insert assigns an id or a created_on.
C10_Lifecycle ==
  [][/\ \A r \in Paste' :
          ~IsNull(r.id) /\ ~IsNull(r.created_on) /\ ~IsNull(r.updated_on)
     /\ \A r \in Paste' :
          \/ \E q \in Paste : q.id = r.id /\ q.created_on = r.created_on
          \/ /\ last' = "insert"
             /\ sequence' # sequence
             /\ r.id = Some(sequence')
             /\ \E text \in InsertTextArgs, name \in InsertNameArgs, d \in Ticks :
                  Insert(text, name, d)]_vars

C10_Witness ==
  /\ last = "update"
  /\ Len(assigned) = 2
  /\ Cardinality(Paste) = 1

====
